---- MODULE Spec2Model ----
(***************************************************************************)
(* Model of examples/documents2graph_pipeline.py: annotated documents are  *)
(* turned into entities and consecutive-mention relationships              *)
(* (BuildGraph.run), the entities are deduplicated (entity_normalizer),    *)
(* and main writes nodes and then edges to a Neo4j store (Neo4jHandler).   *)
(*                                                                         *)
(* A str is modelled as a sequence of one-character strings, a Python list *)
(* as a sequence, the Neo4j store as a sequence of nodes (a node's id is   *)
(* its position) and a set of edges.                                       *)
(***************************************************************************)
EXTENDS Integers, Sequences, FiniteSets

\* ---------------------------------------------------------------- bounds
\* Documents in a batch.
MaxDocs == 2
\* Annotations in a batch, over all its documents.
MaxMentions == 4
\* Annotations of the one document of the span family.
MaxSpanAnn == 1
\* Offsets of the span family range over -OffUnder .. Len(Text) + OffOver.
OffUnder == 3
OffOver == 1
\* Times main is started against the same store (SpecRerun).
MaxRuns == 2

\* ---------------------------------------------------------------- inputs
\* Entity labels the NER collaborator assigns.
Types == {"ORG", "PER"}

\* The content of a document: a str is a sequence of characters.
Text == <<"x", "y">>

\* Document ids, by position in the batch.
DocId(d) == <<"D", d>>

\* NER annotations: the fields extract_entities reads off one.
Annotations(types, offsets) == [entity : types, start : offsets, end : offsets]

\* Well-formed annotations of Text, one character wide.
BatchAnnotations ==
    {a \in Annotations(Types, 0..Len(Text)) : a.end = a.start + 1}

\* Annotations of Text with offsets of every kind: negative, reversed, beyond
\* the end of the text.
SpanAnnotations ==
    Annotations({"ORG"}, (0 - OffUnder)..(Len(Text) + OffOver))

\* The ways to cut a list of `len` annotations into n documents: the end of
\* each document's share, ascending (a document may get none).
Cuts(n, len) ==
    {c \in [1..n -> 0..len] :
        /\ c[n] = len
        /\ \A d \in 1..(n - 1) : c[d] <= c[d + 1]}

\* The batch of n documents that cuts the annotations `flat` at c: each
\* document with its id, its content and its annotations.
Batch(n, flat, c) ==
    [d \in 1..n |->
        [id |-> DocId(d), content |-> Text,
         named_entities |->
             SubSeq(flat, (IF d = 1 THEN 0 ELSE c[d - 1]) + 1, c[d])]]

\* docs is a batch of 1..maxDocs documents that hold at most maxAnns
\* annotations in all.
IsBatch(docs, anns, maxDocs, maxAnns) ==
    \E n \in 1..maxDocs : \E k \in 0..maxAnns : \E flat \in [1..k -> anns] :
        \E c \in Cuts(n, k) : docs = Batch(n, flat, c)

VARIABLES
    documents,          \* main: docs, the annotated documents handed to BuildGraph.run
    pc,                 \* main: position in main
    all_entities,       \* result["entity_builder"]["entities"]
    all_relationships,  \* result["entity_builder"]["relationships"]
    seen,               \* entity_normalizer: the returned set, in insertion order
    printed,            \* entity_normalizer: the "Duplicated entity" lines printed
    wi,                 \* main: index of the next item of the running write loop
    nodes,              \* the store's nodes
    edges,              \* the store's edges
    calls,              \* the Neo4jHandler calls main made in this run, in order
    runs,               \* how many times main was started against the store
    history             \* for each finished run: how it ended and the store's size

vars == <<documents, pc, all_entities, all_relationships, seen, printed, wi,
          nodes, edges, calls, runs, history>>

\* ------------------------------------------------------- BuildGraph
\* Python's text[start:end] for int offsets (slice.indices with step 1):
\* a negative offset counts from the end, then both are clamped to 0..len.
SliceIndex(i, n) ==
    LET j == IF i < 0 THEN i + n ELSE i
    IN  IF j < 0 THEN 0 ELSE IF j > n THEN n ELSE j

PySlice(text, start, end) ==
    SubSeq(text, SliceIndex(start, Len(text)) + 1, SliceIndex(end, Len(text)))

\* BuildGraph.extract_entities
extract_entities(entity, doc_text) ==
    [e_type |-> entity.entity,
     surface_string |-> PySlice(doc_text, entity.start, entity.end)]

\* The key of sorted(...) in BuildGraph.run.
SortKey(entity) == entity.start

\* Mutant of InsertByKey: x goes before the elements of equal key, so equal
\* keys come out in reverse input order (a sort that is not stable).
RECURSIVE InsertByKeyUnstable(_, _)
InsertByKeyUnstable(x, s) ==
    IF s = <<>> THEN <<x>>
    ELSE IF SortKey(s[Len(s)]) < SortKey(x) THEN Append(s, x)
    ELSE Append(InsertByKeyUnstable(x, SubSeq(s, 1, Len(s) - 1)), s[Len(s)])

\* list.insert of x behind every element whose key is not greater: x came
\* later in the input than all of s, so equal keys keep their input order.
RECURSIVE InsertByKey(_, _)
InsertByKey(x, s) ==
    IF s = <<>> THEN <<x>>
    ELSE IF SortKey(s[Len(s)]) <= SortKey(x) THEN Append(s, x)
    ELSE Append(InsertByKey(x, SubSeq(s, 1, Len(s) - 1)), s[Len(s)])

\* sorted(doc.meta["named_entities"], key=lambda entity: entity.start): stable.
RECURSIVE sorted(_)
sorted(anns) ==
    IF anns = <<>> THEN <<>>
    ELSE InsertByKey(anns[Len(anns)], sorted(SubSeq(anns, 1, Len(anns) - 1)))

\* Mutant of consecutive_pairs: range(len(entities) - 2), the last pair lost.
consecutive_pairs_short(entities) ==
    [i \in 1..(Len(entities) - 2) |-> <<entities[i], entities[i + 1]>>]

\* [(entities[i], entities[i + 1]) for i in range(len(entities) - 1)]
consecutive_pairs(entities) ==
    [i \in 1..(Len(entities) - 1) |-> <<entities[i], entities[i + 1]>>]

\* One iteration of the loop of BuildGraph.run: the document's entities and
\* relationships.
DocEntities(doc) ==
    LET entities_sorted_by_occurrence == sorted(doc.named_entities)
    IN  [i \in 1..Len(entities_sorted_by_occurrence) |->
            extract_entities(entities_sorted_by_occurrence[i], doc.content)]

DocRelationships(doc) ==
    LET pairs == consecutive_pairs(DocEntities(doc))
    IN  [i \in 1..Len(pairs) |->
            [ent1 |-> pairs[i][1], ent2 |-> pairs[i][2], relationship |-> doc.id]]

\* BuildGraph.run: the loop over the documents, extending both lists.
RECURSIVE BuildGraphRun(_)
BuildGraphRun(docs) ==
    IF docs = <<>> THEN [entities |-> <<>>, relationships |-> <<>>]
    ELSE LET before == BuildGraphRun(SubSeq(docs, 1, Len(docs) - 1))
             doc == docs[Len(docs)]
         IN  [entities |-> before.entities \o DocEntities(doc),
              relationships |-> before.relationships \o DocRelationships(doc)]

\* ------------------------------------------------------- entity_normalizer
\* Mutant of Entity__eq__: the type is not compared.
Entity__eq__surface(a, b) == a.surface_string = b.surface_string

\* Entity.__eq__ (and __hash__, which agrees with it).
Entity__eq__(a, b) ==
    a.e_type = b.e_type /\ a.surface_string = b.surface_string

\* `entity in seen`
InSeen(entity, s) == \E i \in 1..Len(s) : Entity__eq__(s[i], entity)

\* Mutant of entity_normalizer: a duplicate is printed only the first time
\* its identity is met again.
RECURSIVE entity_normalizer_once(_)
entity_normalizer_once(entities) ==
    IF entities = <<>> THEN [seen |-> <<>>, printed |-> <<>>]
    ELSE LET before == entity_normalizer_once(SubSeq(entities, 1, Len(entities) - 1))
             entity == entities[Len(entities)]
         IN  IF ~InSeen(entity, before.seen)
             THEN [seen |-> Append(before.seen, entity), printed |-> before.printed]
             ELSE IF InSeen(entity, before.printed)
             THEN before
             ELSE [seen |-> before.seen, printed |-> Append(before.printed, entity)]

\* entity_normalizer: the set built (insertion order kept) and the lines
\* printed, after the loop over `entities`.
RECURSIVE entity_normalizer(_)
entity_normalizer(entities) ==
    IF entities = <<>> THEN [seen |-> <<>>, printed |-> <<>>]
    ELSE LET before == entity_normalizer(SubSeq(entities, 1, Len(entities) - 1))
             entity == entities[Len(entities)]
         IN  IF ~InSeen(entity, before.seen)
             THEN [seen |-> Append(before.seen, entity), printed |-> before.printed]
             ELSE [seen |-> before.seen, printed |-> Append(before.printed, entity)]

\* ------------------------------------------------------- Neo4jHandler
\* Mutant of _create_node: CREATE (n {surface_string: $surface_string}), the
\* label left out of the query.
_create_node_unlabelled(store_nodes, label, properties) ==
    Append(store_nodes,
           [label |-> "", surface_string |-> properties.surface_string])

\* Neo4jHandler._create_node: CREATE (n:label {surface_string: $surface_string})
\* adds a node whatever the store holds.
_create_node(store_nodes, label, properties) ==
    Append(store_nodes,
           [label |-> label, surface_string |-> properties.surface_string])

\* The nodes a pattern (n:label {surface_string: $v}) of a MATCH binds.
Match(store_nodes, label, properties) ==
    {i \in 1..Len(store_nodes) :
        /\ store_nodes[i].label = label
        /\ store_nodes[i].surface_string = properties.surface_string}

\* Neo4jHandler._create_relationship: MATCH (a:label1 {...}), (b:label2 {...})
\* CREATE (a)-[r:rel_type {...}]->(b) adds one edge for every row the MATCH
\* yields, that is for every pair of a node bound to a and a node bound to b.
\* tx tells the edges of one call from those of another.
_create_relationship(store_nodes, store_edges, label1, properties1, label2, properties2, rel_type, rel_properties, tx) ==
    store_edges \cup
        {[src |-> a, dst |-> b, type |-> rel_type,
          relationship |-> rel_properties.relationship, tx |-> tx] :
            a \in Match(store_nodes, label1, properties1),
            b \in Match(store_nodes, label2, properties2)}

\* ------------------------------------------------------- main
\* The list the node-write loop of main iterates over.
NodeWriteList == all_entities

\* The list the edge-write loop of main iterates over.
EdgeWriteList == all_relationships

\* The locals of main before pipeline.run.
Locals ==
    /\ pc = "start"
    /\ all_entities = <<>>
    /\ all_relationships = <<>>
    /\ seen = <<>>
    /\ printed = <<>>
    /\ wi = 1
    /\ calls = <<>>

Init ==
    /\ \/ IsBatch(documents, BatchAnnotations, MaxDocs, MaxMentions)
       \/ IsBatch(documents, SpanAnnotations, 1, MaxSpanAnn)
    /\ Locals
    /\ nodes = <<>>
    /\ edges = {}
    /\ runs = 1
    /\ history = <<>>

StoreSize(outcome, n, e) ==
    [outcome |-> outcome, nodes |-> Len(n), edges |-> Cardinality(e)]

\* result = pipeline.run(...): BuildGraph.run on the annotated documents.
PipelineRun ==
    /\ pc = "start"
    /\ LET result == BuildGraphRun(documents)
       IN  /\ all_entities' = result.entities
           /\ all_relationships' = result.relationships
    /\ pc' = "normalize"
    /\ UNCHANGED <<documents, seen, printed, wi, nodes, edges, calls, runs, history>>

\* entities_normalised = entity_normalizer(result["entity_builder"]["entities"])
Normalize ==
    /\ pc = "normalize"
    /\ LET r == entity_normalizer(all_entities)
       IN  /\ seen' = r.seen
           /\ printed' = r.printed
    /\ pc' = "nodes"
    /\ wi' = 1
    /\ UNCHANGED <<documents, all_entities, all_relationships, nodes, edges,
                   calls, runs, history>>

\* One iteration of the node-write loop: neo4j.create_node returns.
CreateNode ==
    /\ pc = "nodes"
    /\ wi <= Len(NodeWriteList)
    /\ LET entity == NodeWriteList[wi]
       IN  nodes' = _create_node(nodes, entity.e_type,
                                 [surface_string |-> entity.surface_string])
    /\ calls' = Append(calls, [op |-> "create_node", raised |-> FALSE])
    /\ wi' = wi + 1
    /\ UNCHANGED <<documents, pc, all_entities, all_relationships, seen, printed,
                   edges, runs, history>>

\* neo4j.create_node raises (the store is unavailable): nothing in main
\* catches it, the write is rolled back and main ends.
CreateNodeRaises ==
    /\ pc = "nodes"
    /\ wi <= Len(NodeWriteList)
    /\ calls' = Append(calls, [op |-> "create_node", raised |-> TRUE])
    /\ pc' = "failed"
    /\ history' = Append(history, StoreSize("failed", nodes, edges))
    /\ UNCHANGED <<documents, all_entities, all_relationships, seen, printed, wi,
                   nodes, edges, runs>>

\* The node-write loop is exhausted: main goes on to the edge-write loop.
StartEdges ==
    /\ pc = "nodes"
    /\ wi > Len(NodeWriteList)
    /\ pc' = "edges"
    /\ wi' = 1
    /\ UNCHANGED <<documents, all_entities, all_relationships, seen, printed,
                   nodes, edges, calls, runs, history>>

\* One iteration of the edge-write loop: neo4j.create_relationship returns.
CreateRelationship ==
    /\ pc = "edges"
    /\ wi <= Len(EdgeWriteList)
    /\ LET relationship == EdgeWriteList[wi]
       IN  edges' = _create_relationship(nodes, edges,
                        relationship.ent1.e_type,
                        [surface_string |-> relationship.ent1.surface_string],
                        relationship.ent2.e_type,
                        [surface_string |-> relationship.ent2.surface_string],
                        "RELATED",
                        [relationship |-> relationship.relationship],
                        <<runs, wi>>)
    /\ calls' = Append(calls, [op |-> "create_relationship", raised |-> FALSE])
    /\ wi' = wi + 1
    /\ UNCHANGED <<documents, pc, all_entities, all_relationships, seen, printed,
                   nodes, runs, history>>

\* neo4j.create_relationship raises: main ends with the exception.
CreateRelationshipRaises ==
    /\ pc = "edges"
    /\ wi <= Len(EdgeWriteList)
    /\ calls' = Append(calls, [op |-> "create_relationship", raised |-> TRUE])
    /\ pc' = "failed"
    /\ history' = Append(history, StoreSize("failed", nodes, edges))
    /\ UNCHANGED <<documents, all_entities, all_relationships, seen, printed, wi,
                   nodes, edges, runs>>

\* The edge-write loop is exhausted: main returns.
Return ==
    /\ pc = "edges"
    /\ wi > Len(EdgeWriteList)
    /\ pc' = "done"
    /\ history' = Append(history, StoreSize("done", nodes, edges))
    /\ UNCHANGED <<documents, all_entities, all_relationships, seen, printed, wi,
                   nodes, edges, calls, runs>>

\* The script is started again on the same input (a retried batch): main
\* begins anew, the store keeps what the earlier runs wrote.
Rerun ==
    /\ pc \in {"done", "failed"}
    /\ runs < MaxRuns
    /\ runs' = runs + 1
    /\ pc' = "start"
    /\ all_entities' = <<>>
    /\ all_relationships' = <<>>
    /\ seen' = <<>>
    /\ printed' = <<>>
    /\ wi' = 1
    /\ calls' = <<>>
    /\ UNCHANGED <<documents, nodes, edges, history>>

Next ==
    \/ PipelineRun
    \/ Normalize
    \/ CreateNode
    \/ CreateNodeRaises
    \/ StartEdges
    \/ CreateRelationship
    \/ CreateRelationshipRaises
    \/ Return

\* One run of the script.
Spec == Init /\ [][Next]_vars

\* The script run up to MaxRuns times on the same input and store.
SpecRerun == Init /\ [][Next \/ Rerun]_vars

\* ------------------------------------------------------- properties
\* The identity of an entity: its type and its surface string.
Identity(e) == <<e.e_type, e.surface_string>>

Identities(ents) == {Identity(ents[i]) : i \in 1..Len(ents)}

\* The positions of `ents` that hold identity id.
Occurrences(ents, id) == {i \in 1..Len(ents) : Identity(ents[i]) = id}

\* The nodes of the store that carry identity id.
NodesOf(id) ==
    {i \in 1..Len(nodes) : <<nodes[i].label, nodes[i].surface_string>> = id}

\* BuildGraph.run has returned.
Assembled == pc # "start"

\* entity_normalizer has returned.
Normalized == pc \notin {"start", "normalize"}

\* The first run of main against an empty store has completed.
FirstRunDone == runs = 1 /\ pc = "done"

CallsOf(op) == {i \in 1..Len(calls) : calls[i].op = op}

\* 0 <= start <= end <= len(text)
InRange(a, text) == 0 <= a.start /\ a.start <= a.end /\ a.end <= Len(text)

\* C1: after a complete pipeline run the store holds exactly one node per
\* distinct (type, surface) identity of the batch, and create_node was invoked
\* once per member of the Normalizer's output set.
C1_OneNodePerIdentity ==
    FirstRunDone =>
        /\ \A id \in Identities(all_entities) : Cardinality(NodesOf(id)) = 1
        /\ Len(nodes) = Cardinality(Identities(all_entities))
        /\ Cardinality(CallsOf("create_node")) = Len(seen)

\* C2: when main completes twice in a row on the same input, the second run
\* leaves the node count of the first (no duplicate nodes) and adds as many
\* edges as the first did (double the edge count on an empty store).
C2_Idempotence ==
    \A r \in 2..Len(history) :
        (history[r - 1].outcome = "done" /\ history[r].outcome = "done") =>
            LET before == IF r = 2 THEN 0 ELSE history[r - 2].edges
            IN  /\ history[r].nodes = history[r - 1].nodes
                /\ history[r].edges - history[r - 1].edges
                     = history[r - 1].edges - before

\* C3: in every run no create_relationship call comes before a create_node
\* call, an edge write is attempted only once every node write of the batch
\* has completed, and while the edge loop runs both endpoints of every
\* relationship have a node in the store.
C3_NodesBeforeEdges ==
    /\ \A i \in CallsOf("create_relationship") :
           \A j \in CallsOf("create_node") : j < i /\ ~calls[j].raised
    /\ CallsOf("create_relationship") # {} =>
           Cardinality(CallsOf("create_node")) = Len(all_entities)
    /\ pc = "edges" =>
           \A k \in 1..Len(all_relationships) :
               /\ NodesOf(Identity(all_relationships[k].ent1)) # {}
               /\ NodesOf(Identity(all_relationships[k].ent2)) # {}

\* An edge write follows the node writes of a batch with several entities.
C3_Witness ==
    /\ runs = 1
    /\ Cardinality(CallsOf("create_node")) >= 3
    /\ Cardinality(CallsOf("create_relationship")) >= 1
    /\ pc = "edges"
    /\ wi <= Len(all_relationships)

\* C4: when main has ended, every node and every edge of the batch was
\* attempted and the run completed, whether or not a store call raised.
C4_PartialFailureIsolation ==
    pc \in {"done", "failed"} =>
        /\ pc = "done"
        /\ Len(calls) = Len(all_entities) + Len(all_relationships)

\* C5: BuildGraph.run returns no entities for a batch that holds an annotation
\* whose offsets violate 0 <= start <= end <= len(text): extract_entities
\* fails on it instead of slicing.
C5_OutOfRangeSpanFails ==
    Assembled =>
        \A d \in 1..Len(documents) :
            \A k \in 1..Len(documents[d].named_entities) :
                InRange(documents[d].named_entities[k], documents[d].content)

\* The place sorted() must give annotation k, stated without sorting: behind
\* the annotations of smaller start and those of equal start that come before
\* it in the input.
Rank(anns, k) ==
    1 + Cardinality({j \in 1..Len(anns) :
                        \/ anns[j].start < anns[k].start
                        \/ anns[j].start = anns[k].start /\ j < k})

\* The entities of document d in occurrence order.
Occurrence(d) ==
    LET doc == documents[d]
        anns == doc.named_entities
    IN  [i \in 1..Len(anns) |->
            LET a == anns[CHOOSE k \in 1..Len(anns) : Rank(anns, k) = i]
            IN  [e_type |-> a.entity,
                 surface_string |-> PySlice(doc.content, a.start, a.end)]]

AnnCount(d) == Len(documents[d].named_entities)

PairCount(d) == IF AnnCount(d) = 0 THEN 0 ELSE AnnCount(d) - 1

\* The number of annotations, and of adjacent pairs, in documents 1..d.
RECURSIVE AnnsUpTo(_)
AnnsUpTo(d) == IF d = 0 THEN 0 ELSE AnnsUpTo(d - 1) + AnnCount(d)

RECURSIVE PairsUpTo(_)
PairsUpTo(d) == IF d = 0 THEN 0 ELSE PairsUpTo(d - 1) + PairCount(d)

\* C6: the relationships BuildGraph.run returns are, document after document,
\* exactly the pairs (entity[i], entity[i+1]) of that document's entities in
\* ascending start order (equal starts in annotation order), source first,
\* with the document's id as context: none crosses documents, none skips a
\* position.
C6_ConsecutiveSameDocument ==
    Assembled =>
        /\ \A d \in 1..Len(documents) :
               LET entity == Occurrence(d)
                   first == PairsUpTo(d - 1)
               IN  \A i \in 1..PairCount(d) :
                       /\ first + i <= Len(all_relationships)
                       /\ all_relationships[first + i]
                            = [ent1 |-> entity[i],
                               ent2 |-> entity[i + 1],
                               relationship |-> documents[d].id]
        /\ \A k \in 1..Len(all_relationships) :
               \E d \in 1..Len(documents) :
                   k \in (PairsUpTo(d - 1) + 1)..PairsUpTo(d)

\* Two documents with a pair each: the first's annotations out of start
\* order, the second's with equal starts and different surfaces or types.
C6_Witness ==
    /\ Assembled
    /\ Len(documents) = 2
    /\ AnnCount(1) = 2
    /\ AnnCount(2) = 2
    /\ documents[1].named_entities[1].start > documents[1].named_entities[2].start
    /\ documents[2].named_entities[1].start = documents[2].named_entities[2].start
    /\ documents[2].named_entities[1] # documents[2].named_entities[2]
    /\ Len(all_relationships) = 2

\* C7: a document with n annotations contributes n entities and max(0, n - 1)
\* relationships, so the batch totals are the sums over its documents.
C7_Counts ==
    Assembled =>
        /\ Len(all_entities) = AnnsUpTo(Len(documents))
        /\ Len(all_relationships) = PairsUpTo(Len(documents))
        /\ \A d \in 1..Len(documents) :
               Cardinality({k \in 1..Len(all_relationships) :
                   all_relationships[k].relationship = documents[d].id})
                 = PairCount(d)

\* A batch of a document with a single annotation (no relationship) and one
\* with several.
C7_Witness ==
    /\ Assembled
    /\ \E d \in 1..Len(documents) : AnnCount(d) = 1
    /\ \E d \in 1..Len(documents) : AnnCount(d) >= 2
    /\ Len(all_relationships) >= 1

RepeatPositions ==
    {i \in 1..Len(all_entities) :
        \E j \in 1..(i - 1) : Identity(all_entities[j]) = Identity(all_entities[i])}

\* The k-th smallest member of a set of numbers.
KthOf(S, k) == CHOOSE i \in S : Cardinality({j \in S : j < i}) = k - 1

C10_OneEdgePerRelationship ==
    FirstRunDone =>
        /\ Cardinality(edges) = Len(all_relationships)
        /\ \A k \in 1..Len(all_relationships) :
               Cardinality({e \in edges :
                   /\ e.tx = <<1, k>>
                   /\ e.src \in NodesOf(Identity(all_relationships[k].ent1))
                   /\ e.dst \in NodesOf(Identity(all_relationships[k].ent2))
                   /\ e.relationship = all_relationships[k].relationship}) = 1

====
